---- MODULE Spec2Model ----
(***************************************************************************)
(* A model of qlbridge's SQL row evaluator (vm/sqlvm.go) and of its        *)
(* virtual schema registry (schema package).                               *)
(*                                                                         *)
(*  SpecSql   one EvalSql call after another on bounded SELECT statements  *)
(*  Spec      the schema registry, its operations run one at a time        *)
(*  SpecConc  threads running Schema.AddTableName and Schema.Table on one  *)
(*            Schema, statement by statement                               *)
(*  SpecClock the Schema's refresh time against the clock                  *)
(*  SpecVm    Eval, EvalSql and Vm.Execute on bounded expressions and rows *)
(*  SpecFields  Table.AddField calls on one Table                          *)
(***************************************************************************)
EXTENDS Integers, Sequences, FiniteSets, TLC

VARIABLES
    \* ---- vm/sqlvm.go: one EvalSql call ----
    sqlPc,          \* "idle" before a call, "returned" after it
    sel,            \* the *expr.SqlSelect of the call
    writeContext,   \* expr.ContextWriter: the Puts it received, in order
    writeContext0,  \* the write context as it was when the call started
    evalLog,        \* the Eval calls the call made, in order
    sqlKeep,        \* first result of EvalSql
    sqlErr,         \* second result of EvalSql
    \* ---- schema package: one Schema, its SourceSchemas, DataSources ----
    schema,         \* the Schema: SourceSchemas, tableSources, tableMap, tableNames
    ss,             \* the SourceSchema objects: Conf.TablesToLoad, Schema, DS,
                    \* tableMap, tableNames
    ds,             \* the DataSource objects: what Tables() lists, whether the
                    \* DataSource is a SchemaProvider, the SourceSchema it fills in
    tables,         \* the Table objects, by pointer (position in this sequence)
    last,           \* the last registry call: operation, arguments, results
    \* ---- schema package: threads calling into the Schema ----
    threads,        \* per thread: the call it runs and where it is in it
    \* ---- schema package: the clock ----
    now,            \* time.Now(), in minutes
    refreshedAt,    \* when RefreshSchema last ran or a Table was last
                    \* materialized through the Schema; Never before that
    \* ---- vm/vm.go: one evaluation ----
    vm,             \* the read context, the node, the call made and its results
    \* ---- schema package: one Table and the Fields added to it ----
    theTable        \* Table.Fields, Table.FieldMap, and the Field objects made

sqlVars == <<sqlPc, sel, writeContext, writeContext0, evalLog, sqlKeep, sqlErr>>
regVars == <<schema, ss, ds, tables, last>>
clockVars == <<now, refreshedAt>>
vars == <<sqlVars, regVars, threads, clockVars, vm, theTable>>

(***************************************************************************)
(* Bounds                                                                  *)
(***************************************************************************)
MaxCols == 2
MaxFields == 4      \* Field objects made in one behaviour
MaxTables == 1      \* Table objects created in one behaviour

(***************************************************************************)
(* vm/sqlvm.go                                                             *)
(***************************************************************************)

\* No node: sel.Where == nil, col.Guard == nil.
NoNode == "NoNode"

\* The outcomes of Eval(readContext, node) that EvalSql tells apart.  A node
\* of the statement is represented by what it evaluates to on the row:
\*   GoErr        Eval returns a non-nil error
\*   BoolTrue     value.BoolValue true
\*   BoolFalse    value.BoolValue false
\*   NilValue     value.NilValue
\*   NilIface     a nil value.Value interface (Eval of a nil node)
\*   ErrorValue   value.ErrorValue
\*   IntValue     a value of another kind whose Nil() is false
\*   EmptyString  a value of another kind whose Nil() is true
GuardNodes == {"GoErr", "BoolTrue", "BoolFalse", "NilValue", "NilIface",
               "ErrorValue", "IntValue", "EmptyString"}

NoErr == "nil"
EvalErr == "eval error"        \* the error Eval returned
ErrVal == "ErrorValue.ErrVal"  \* the error an ErrorValue carries

\* Eval(readContext, node): the value and the error.
Eval(node) ==
    IF node = "GoErr" THEN [val |-> "NilIface", err |-> EvalErr]
    ELSE [val |-> node, err |-> NoErr]

\* value.Value.Nil() of a value that is none of Bool, nil, NilValue, ErrorValue.
ValueNil(v) == v = "EmptyString"

\* The WHERE gate, sqlvm.go:18-42.  ret says whether EvalSql returns here.
WhereGateNilFilters(whereNode) ==
    IF whereNode = NoNode THEN [ret |-> FALSE, keep |-> TRUE, err |-> NoErr]
    ELSE LET r == Eval(whereNode) IN
         IF r.err # NoErr THEN [ret |-> TRUE, keep |-> FALSE, err |-> r.err]
         ELSE CASE r.val = "BoolFalse" -> [ret |-> TRUE, keep |-> FALSE, err |-> NoErr]
                []  r.val = "BoolTrue" -> [ret |-> FALSE, keep |-> TRUE, err |-> NoErr]
                []  r.val \in {"NilIface", "NilValue"} ->
                        [ret |-> TRUE, keep |-> FALSE, err |-> NoErr]
                []  r.val = "ErrorValue" -> [ret |-> TRUE, keep |-> FALSE, err |-> ErrVal]
                []  OTHER -> IF ValueNil(r.val)
                             THEN [ret |-> TRUE, keep |-> FALSE, err |-> NoErr]
                             ELSE [ret |-> FALSE, keep |-> TRUE, err |-> NoErr]

WhereGateFalseFallsThrough(whereNode) ==
    IF whereNode = NoNode THEN [ret |-> FALSE, keep |-> TRUE, err |-> NoErr]
    ELSE LET r == Eval(whereNode) IN
         IF r.err # NoErr THEN [ret |-> TRUE, keep |-> FALSE, err |-> r.err]
         ELSE CASE r.val \in {"BoolFalse", "BoolTrue"} ->
                        [ret |-> FALSE, keep |-> TRUE, err |-> NoErr]
                []  r.val \in {"NilIface", "NilValue"} ->
                        [ret |-> TRUE, keep |-> TRUE, err |-> NoErr]
                []  r.val = "ErrorValue" -> [ret |-> TRUE, keep |-> TRUE, err |-> ErrVal]
                []  OTHER -> IF ValueNil(r.val)
                             THEN [ret |-> TRUE, keep |-> FALSE, err |-> NoErr]
                             ELSE [ret |-> FALSE, keep |-> TRUE, err |-> NoErr]

WhereGate(whereNode) ==
    IF whereNode = NoNode THEN [ret |-> FALSE, keep |-> TRUE, err |-> NoErr]
    ELSE LET r == Eval(whereNode) IN
         IF r.err # NoErr THEN [ret |-> TRUE, keep |-> FALSE, err |-> r.err]
         ELSE CASE r.val = "BoolFalse" -> [ret |-> TRUE, keep |-> FALSE, err |-> NoErr]
                []  r.val = "BoolTrue" -> [ret |-> FALSE, keep |-> TRUE, err |-> NoErr]
                []  r.val \in {"NilIface", "NilValue"} ->
                        [ret |-> TRUE, keep |-> TRUE, err |-> NoErr]
                []  r.val = "ErrorValue" -> [ret |-> TRUE, keep |-> TRUE, err |-> ErrVal]
                []  OTHER -> IF ValueNil(r.val)
                             THEN [ret |-> TRUE, keep |-> FALSE, err |-> NoErr]
                             ELSE [ret |-> FALSE, keep |-> TRUE, err |-> NoErr]

\* The column guard, sqlvm.go:48-69: TRUE when the column is skipped
\* (one of the continue statements is taken).
GuardSkipsOnlyFalse(guardNode) ==
    IF guardNode = NoNode THEN FALSE
    ELSE LET r == Eval(guardNode) IN r.err = NoErr /\ r.val = "BoolFalse"

GuardSkips(guardNode) ==
    IF guardNode = NoNode THEN FALSE
    ELSE LET r == Eval(guardNode) IN
         IF r.err # NoErr THEN TRUE
         ELSE CASE r.val = "BoolFalse" -> TRUE
                []  r.val = "BoolTrue" -> FALSE
                []  r.val \in {"NilIface", "NilValue"} -> TRUE
                []  r.val = "ErrorValue" -> TRUE
                []  OTHER -> ValueNil(r.val)

\* writeContext.Put(col, readContext, v), sqlvm.go:78: the write context
\* records the column (its position and its As) and the value.
Put(wc, i, col, v) == Append(wc, [col |-> i, as |-> col.As, val |-> v])

\* The entries a column adds to the log of Eval calls.
GuardEval(i, col) == IF col.Guard = NoNode THEN <<>> ELSE << <<"Guard", i>> >>

\* The projection loop, sqlvm.go:45-82, from column i on.  st is the state
\* of the call: [keep, err, wc, evals].
RECURSIVE EvalColumnsPutOnError(_, _, _)
EvalColumnsPutOnError(cols, i, st) ==
    IF i > Len(cols) THEN st
    ELSE LET col == cols[i]
             g == GuardEval(i, col)
         IN  IF GuardSkips(col.Guard)
             THEN EvalColumnsPutOnError(cols, i + 1, [st EXCEPT !.evals = @ \o g])
             ELSE LET r == Eval(col.Expr)
                      ev == st.evals \o g \o << <<"Expr", i>> >>
                  IN  IF r.err # NoErr
                      THEN [keep |-> FALSE, err |-> r.err,
                            wc |-> Put(st.wc, i, col, r.val), evals |-> ev]
                      ELSE EvalColumnsPutOnError(cols, i + 1,
                               [st EXCEPT !.wc = Put(@, i, col, r.val), !.evals = ev])

RECURSIVE EvalColumns(_, _, _)
EvalColumns(cols, i, st) ==
    IF i > Len(cols) THEN st
    ELSE LET col == cols[i]
             g == GuardEval(i, col)
         IN  IF GuardSkips(col.Guard)
             THEN EvalColumns(cols, i + 1, [st EXCEPT !.evals = @ \o g])
             ELSE LET r == Eval(col.Expr)
                      ev == st.evals \o g \o << <<"Expr", i>> >>
                  IN  IF r.err # NoErr
                      THEN [keep |-> FALSE, err |-> r.err, wc |-> st.wc, evals |-> ev]
                      ELSE EvalColumns(cols, i + 1,
                               [st EXCEPT !.wc = Put(@, i, col, r.val), !.evals = ev])

\* EvalSql(sel, writeContext, readContext), sqlvm.go:15-83.
EvalSql(s, wc) ==
    LET w == WhereGate(s.Where)
        ev == IF s.Where = NoNode THEN <<>> ELSE << <<"Where", 0>> >>
    IN  IF w.ret
        THEN [keep |-> w.keep, err |-> w.err, wc |-> wc, evals |-> ev]
        ELSE EvalColumns(s.Columns, 1,
                 [keep |-> TRUE, err |-> NoErr, wc |-> wc, evals |-> ev])

\* ---- the statements and write contexts the calls are made with ----
ColAs(i) == <<"c", i>>

RECURSIVE ColumnLists(_)
ColumnLists(n) ==
    IF n = 0 THEN {<<>>}
    ELSE LET shorter == ColumnLists(n - 1) IN
         shorter \cup
         {Append(cs, [As |-> ColAs(n), Guard |-> g, Expr |-> e]) :
             cs \in {c \in shorter : Len(c) = n - 1},
             g \in GuardNodes \cup {NoNode},
             e \in {"GoErr", "IntValue", "NilValue"}}

\* What an earlier row may have left in the write context.
EarlierPuts == {<<>>, <<[col |-> 1, as |-> ColAs(1), val |-> "IntValue"]>>}

NoSelect == [Where |-> NoNode, Columns |-> <<>>]

CallEvalSql ==
    /\ sqlPc = "idle"
    /\ \E s \in {[Where |-> w, Columns |-> cs] :
                    w \in GuardNodes \cup {NoNode}, cs \in ColumnLists(MaxCols)} :
          LET r == EvalSql(s, writeContext) IN
          /\ sel' = s
          /\ writeContext0' = writeContext
          /\ writeContext' = r.wc
          /\ evalLog' = r.evals
          /\ sqlKeep' = r.keep
          /\ sqlErr' = r.err
    /\ sqlPc' = "returned"
    /\ UNCHANGED <<regVars, threads, clockVars, vm, theTable>>

\* The caller goes on to the next row, with a write context of its own.
NextRow ==
    /\ sqlPc = "returned"
    /\ sqlPc' = "idle"
    /\ sel' = NoSelect
    /\ writeContext' \in EarlierPuts
    /\ writeContext0' = writeContext'
    /\ evalLog' = <<>>
    /\ sqlKeep' = TRUE
    /\ sqlErr' = NoErr
    /\ UNCHANGED <<regVars, threads, clockVars, vm, theTable>>

(***************************************************************************)
(* schema package: strings, maps, objects                                  *)
(***************************************************************************)

\* A string is the sequence of its bytes.  The table names of the model:
\* "A", "a", "b".
Names == {<<65>>, <<97>>, <<98>>}

\* strings.ToLower on ASCII.
ToLower(str) ==
    [i \in 1..Len(str) |-> IF str[i] >= 65 /\ str[i] <= 90 THEN str[i] + 32
                           ELSE str[i]]

\* Go's < on strings (bytewise, a proper prefix first), as sort.Strings uses it.
RECURSIVE StringLess(_, _)
StringLess(a, b) ==
    IF b = <<>> THEN FALSE
    ELSE IF a = <<>> THEN TRUE
    ELSE IF a[1] # b[1] THEN a[1] < b[1]
    ELSE StringLess(Tail(a), Tail(b))

\* sort.Strings, as an insertion sort.
RECURSIVE InsertSorted(_, _)
InsertSorted(sorted, x) ==
    IF sorted = <<>> THEN <<x>>
    ELSE IF StringLess(x, sorted[1]) THEN <<x>> \o sorted
    ELSE <<sorted[1]>> \o InsertSorted(Tail(sorted), x)

SortStringsNoOp(strs) == strs

RECURSIVE SortStrings(_)
SortStrings(strs) ==
    IF strs = <<>> THEN <<>>
    ELSE InsertSorted(SortStrings(SubSeq(strs, 1, Len(strs) - 1)), strs[Len(strs)])

\* for _, cur := range list { if name == cur { found = true } }
Contains(list, name) == \E i \in 1..Len(list) : list[i] = name

\* expr.LeftRight on an identifier that is not quoted: the part after the
\* first "." (byte 46), the whole of it when there is none.
RECURSIVE AfterDot(_)
AfterDot(str) ==
    IF str = <<>> THEN <<>>
    ELSE IF str[1] = 46 THEN Tail(str)
    ELSE AfterDot(Tail(str))

LeftRight(str) ==
    IF Len(str) < 2 \/ ~(\E i \in 1..Len(str) : str[i] = 46) THEN str
    ELSE AfterDot(str)

\* A Go map: a function on the keys present.  m[k] = v:
MapPut(m, k, v) == [x \in (DOMAIN m) \cup {k} |-> IF x = k THEN v ELSE m[x]]
EmptyMap == [x \in {} |-> 0]
Has(m, k) == k \in DOMAIN m

\* Pointers.  A *Table is the position of the object in tables; 0 is nil.
Nil == 0
SS == {"s1", "s2"}     \* the *SourceSchema objects (by SourceSchema.Name)
DS == {"d1"}           \* the DataSource objects
NoDS == "nil"          \* SourceSchema.DS == nil
NoSS == "nil"          \* a nil *SourceSchema

\* hash/fnv New64 (FNV-1, 64 bit) of the bytes of a string.  A uint64 is its
\* 8 bytes, least significant first.
RECURSIVE Xor(_, _, _)
Xor(a, b, bits) ==
    IF bits = 0 THEN 0
    ELSE (IF a % 2 = b % 2 THEN 0 ELSE 1) + 2 * Xor(a \div 2, b \div 2, bits - 1)


\* h * 0x100000001b3 mod 2^64 = (h << 40) + h * 0x1b3 mod 2^64, byte by byte.
RECURSIVE MulPrime(_, _, _)
MulPrime(h, i, carry) ==
    IF i > 8 THEN <<>>
    ELSE LET v == h[i] * 435 + (IF i > 5 THEN h[i - 5] ELSE 0) + carry
         IN  <<v % 256>> \o MulPrime(h, i + 1, v \div 256)

RECURSIVE FnvWrite(_, _)
FnvWrite(h, bytes) ==
    IF bytes = <<>> THEN h
    ELSE LET m == MulPrime(h, 1, 0)
         IN  FnvWrite([m EXCEPT ![1] = Xor(@, bytes[1], 8)], Tail(bytes))

\* The hash starts at the offset 0xcbf29ce484222325.
FNV64(str) == FnvWrite(<<37, 35, 34, 132, 228, 156, 242, 203>>, str)
ZeroId == <<0, 0, 0, 0, 0, 0, 0, 0>>

\* NewTable(table, s), part_000:405-416: the fields the registry reads.
NewTable(table, s) == [Name |-> ToLower(table), SourceSchema |-> s, tblId |-> ZeroId]

\* The state the registry operations work on.
World == [schema |-> schema, ss |-> ss, ds |-> ds, tables |-> tables]

(***************************************************************************)
(* schema package: the operations, as functions of the state               *)
(***************************************************************************)

\* (m *Schema) AddTableName(tableName, ss), part_000:280-295.
Schema_AddTableNameNoCheck(w, tableName, s) ==
    LET w1 == [w EXCEPT !.schema.tableNames = SortStrings(Append(@, tableName))]
    IN  IF Has(w1.schema.tableMap, tableName) THEN w1
        ELSE [w1 EXCEPT !.schema.tableSources = MapPut(@, tableName, s),
                        !.schema.tableMap = MapPut(@, tableName, Nil)]

Schema_AddTableName(w, tableName, s) ==
    IF Contains(w.schema.tableNames, tableName) THEN w
    ELSE LET w1 == [w EXCEPT !.schema.tableNames = SortStrings(Append(@, tableName))]
         IN  IF Has(w1.schema.tableMap, tableName) THEN w1
             ELSE [w1 EXCEPT !.schema.tableSources = MapPut(@, tableName, s),
                             !.schema.tableMap = MapPut(@, tableName, Nil)]

\* (m *Schema) addTable(tbl), part_000:296-300.
Schema_addTable(w, t) ==
    LET tbl == w.tables[t]
        w1 == [w EXCEPT !.schema.tableSources = MapPut(@, tbl.Name, tbl.SourceSchema),
                        !.schema.tableMap = MapPut(@, tbl.Name, t)]
    IN  Schema_AddTableName(w1, tbl.Name, tbl.SourceSchema)

\* The TablesToLoad filter of SourceSchema.AddTableName, part_000:326-338:
\* TRUE when the name is admitted.
LoadTable(tablesToLoad, tableName) ==
    LET lowerTable == tableName
    IN  Len(tablesToLoad) > 0 =>
            \E i \in 1..Len(tablesToLoad) : ToLower(tablesToLoad[i]) = lowerTable

\* (m *SourceSchema) AddTableName(tableName), part_000:323-360.
SourceSchema_AddTableName(w, s, tableName) ==
    IF ~LoadTable(w.ss[s].TablesToLoad, tableName) THEN w
    ELSE IF Contains(w.ss[s].tableNames, tableName) THEN w
    ELSE LET w1 == [w EXCEPT !.ss[s].tableNames = SortStrings(Append(@, tableName))]
             w2 == IF w1.ss[s].Schema THEN Schema_AddTableName(w1, tableName, s) ELSE w1
         IN  IF Has(w2.ss[s].tableMap, tableName) THEN w2
             ELSE [w2 EXCEPT !.ss[s].tableMap = MapPut(@, tableName, Nil)]

\* (m *SourceSchema) AddTable(tbl), part_000:361-376.
SourceSchema_AddTable(w, s, t) ==
    LET name == w.tables[t].Name
        w1 == IF w.ss[s].Schema THEN Schema_addTable(w, t) ELSE w
        w2 == [w1 EXCEPT !.tables[t].tblId = FNV64(name),
                         !.ss[s].tableMap = MapPut(@, name, t)]
    IN  SourceSchema_AddTableName(w2, s, name)

\* The loops of RefreshSchema over a list of table names, part_000:164-168
\* and 171-175.
RECURSIVE AddTableNames(_, _, _, _)
AddTableNames(w, s, names, i) ==
    IF i > Len(names) THEN w
    ELSE LET w1 == SourceSchema_AddTableName(w, s, names[i])
         IN  AddTableNames(Schema_AddTableName(w1, names[i], s), s, names, i + 1)

\* The loop of RefreshSchema over m.SourceSchemas, which Go ranges over in an
\* order of its choosing: order lists the registered SourceSchemas.
RECURSIVE RefreshLoop(_, _, _)
RefreshLoop(w, order, i) ==
    IF i > Len(order) THEN w
    ELSE LET s == order[i] IN
         IF w.ss[s].DS = NoDS
         THEN AddTableNames(w, s, w.ss[s].tableNames, 1)
         ELSE RefreshLoop(AddTableNames(w, s, w.ds[w.ss[s].DS].tables, 1), order, i + 1)

\* (m *Schema) RefreshSchema(), part_000:160-177.
Schema_RefreshSchema(w, order) == RefreshLoop(w, order, 1)

\* (m *Schema) AddSourceSchema(ss), part_000:179-182.
Schema_AddSourceSchema(w, s, order) ==
    Schema_RefreshSchema([w EXCEPT !.schema.SourceSchemas = @ \cup {s}], order)

\* The orders a range over the map m.SourceSchemas may take.
Orders(set) ==
    {o \in UNION {[1..n -> set] : n \in 0..Cardinality(set)} :
        /\ Len(o) = Cardinality(set)
        /\ \A i, j \in 1..Len(o) : i # j => o[i] # o[j]}

\* What a registry call hands back: the state, a *SourceSchema or a *Table,
\* the error ("nil" for none), and the number of SchemaProvider.Table calls.
ErrNil == "nil"
ErrNoSource == "Could not find a source for that table"
ErrNoTable == "Could not find that table"
ErrDataSource == "error of SchemaProvider.Table"
Panic == "panic: nil pointer dereference"

\* The refresh loop of Schema.Source, part_000:202-218, from the j-th table of
\* the i-th SourceSchema on.  sv is the local ss of Source.
RECURSIVE SourceLoop(_, _, _, _, _, _, _)
SourceLoop(w, tableName, sv, order, order2, i, j) ==
    IF i > Len(order) THEN [w |-> w, ss |-> NoSS, err |-> ErrNoSource]
    ELSE LET ss2 == order[i] IN
         IF w.ss[ss2].DS = NoDS THEN [w |-> w, ss |-> NoSS, err |-> Panic]
         ELSE LET tbls == w.ds[w.ss[ss2].DS].tables IN
              IF j > Len(tbls)
              THEN SourceLoop(w, tableName, sv, order, order2, i + 1, 1)
              ELSE LET tbl == tbls[j] IN
                   IF ~Has(w.schema.tableSources, tbl)
                   THEN IF ~w.ss[ss2].Schema
                        THEN [w |-> w, ss |-> NoSS, err |-> Panic]
                        ELSE [w |-> Schema_RefreshSchema(w, order2),
                              ss |-> ss2, err |-> ErrNil]
                   ELSE IF tbl = tableName
                   THEN [w |-> IF sv # NoSS
                               THEN [w EXCEPT !.ss[sv].DS = w.ss[ss2].DS]
                               ELSE w,
                         ss |-> ss2, err |-> ErrNil]
                   ELSE SourceLoop(w, tableName, sv, order, order2, i, j + 1)

\* (m *Schema) Source(tableName), part_000:183-220.
Schema_Source(w, tableName, order, order2) ==
    LET ts == w.schema.tableSources
        ok == Has(ts, tableName)
        lower == ToLower(tableName)
    IN  IF ok /\ w.ss[ts[tableName]].DS # NoDS
        THEN [w |-> w, ss |-> ts[tableName], err |-> ErrNil]
        ELSE IF ok
        THEN SourceLoop(w, tableName, ts[tableName], order, order2, 1, 1)
        ELSE IF Has(ts, lower)
        THEN [w |-> w, ss |-> ts[lower], err |-> ErrNil]
        ELSE SourceLoop(w, tableName, NoSS, order, order2, 1, 1)

\* Whether the DataSource d has the SchemaProvider capability and its
\* Table(name) can succeed: the DataSource lists the table (in some case).
IsSchemaProvider(w, d) == d # NoDS /\ w.ds[d].provider
DataSourceHas(w, d, name) ==
    \E i \in 1..Len(w.ds[d].tables) : ToLower(w.ds[d].tables[i]) = ToLower(name)

\* sourceTable.Table(tableName): a new Table made with NewTable for the
\* SourceSchema the DataSource belongs to.
WithNewTable(w, d, name) == [w EXCEPT !.tables = Append(@, NewTable(name, w.ds[d].owner))]

\* (m *Schema) findTable(tableName), part_000:256-278.  dsOk: the DataSource
\* answers without error.
Schema_findTableNoStore(w, tableName, dsOk) ==
    LET tm == w.schema.tableMap IN
    IF Has(tm, tableName) /\ tm[tableName] # Nil
    THEN [w |-> w, tbl |-> tm[tableName], err |-> ErrNil, dsCalls |-> 0]
    ELSE IF Has(w.schema.tableSources, tableName)
            /\ IsSchemaProvider(w, w.ss[w.schema.tableSources[tableName]].DS)
    THEN LET d == w.ss[w.schema.tableSources[tableName]].DS IN
         IF dsOk /\ DataSourceHas(w, d, tableName)
         THEN LET w1 == WithNewTable(w, d, tableName)
              IN  [w |-> w1, tbl |-> Len(w1.tables), err |-> ErrNil, dsCalls |-> 1]
         ELSE [w |-> w, tbl |-> Nil, err |-> ErrDataSource, dsCalls |-> 1]
    ELSE [w |-> w, tbl |-> Nil, err |-> ErrNoTable, dsCalls |-> 0]

Schema_findTable(w, tableName, dsOk) ==
    LET tm == w.schema.tableMap IN
    IF Has(tm, tableName) /\ tm[tableName] # Nil
    THEN [w |-> w, tbl |-> tm[tableName], err |-> ErrNil, dsCalls |-> 0]
    ELSE IF Has(w.schema.tableSources, tableName)
            /\ IsSchemaProvider(w, w.ss[w.schema.tableSources[tableName]].DS)
    THEN LET d == w.ss[w.schema.tableSources[tableName]].DS IN
         IF dsOk /\ DataSourceHas(w, d, tableName)
         THEN LET w1 == WithNewTable(w, d, tableName)
                  t == Len(w1.tables)
              IN  [w |-> Schema_addTable(w1, t), tbl |-> t, err |-> ErrNil,
                   dsCalls |-> 1]
         ELSE [w |-> w, tbl |-> Nil, err |-> ErrDataSource, dsCalls |-> 1]
    ELSE [w |-> w, tbl |-> Nil, err |-> ErrNoTable, dsCalls |-> 0]

\* (m *Schema) Table(tableName), part_000:248-255.
Schema_Table(w, tableName, dsOk) ==
    LET tm == w.schema.tableMap IN
    IF Has(tm, tableName) /\ tm[tableName] # Nil
    THEN [w |-> w, tbl |-> tm[tableName], err |-> ErrNil, dsCalls |-> 0]
    ELSE Schema_findTable(w, ToLower(LeftRight(tableName)), dsOk)

\* (m *SourceSchema) Table(tableName), part_000:378-403.  The branch at
\* 392-401 needs a non-nil tbl and is reached only with tbl == nil.
SourceSchema_Table(w, s, tableName, dsOk) ==
    LET tm == w.ss[s].tableMap
        d == w.ss[s].DS
    IN  IF Has(tm, tableName) /\ tm[tableName] # Nil
        THEN [w |-> w, tbl |-> tm[tableName], err |-> ErrNil, dsCalls |-> 0]
        ELSE IF Has(tm, tableName) /\ IsSchemaProvider(w, d)
        THEN IF dsOk /\ DataSourceHas(w, d, tableName)
             THEN LET w1 == WithNewTable(w, d, tableName)
                      t == Len(w1.tables)
                  IN  [w |-> SourceSchema_AddTable(w1, s, t), tbl |-> t,
                       err |-> ErrNil, dsCalls |-> 1]
             ELSE [w |-> w, tbl |-> Nil, err |-> ErrDataSource, dsCalls |-> 1]
        ELSE [w |-> w, tbl |-> Nil, err |-> ErrNoTable, dsCalls |-> 0]

(***************************************************************************)
(* schema package: the registry, one call at a time                        *)
(***************************************************************************)

\* The zero time.Time, which the clock never shows.
ZeroTime == 0

\* SchemaRefreshInterval = -time.Minute * 5, part_000:21, in minutes.
SchemaRefreshInterval == 0 - 5

\* (m *Schema) Since(dur), part_000:303-311, at the time t.
Schema_Since(w, dur, t) ==
    IF w.schema.lastRefreshed = ZeroTime THEN FALSE
    ELSE w.schema.lastRefreshed > t + dur

\* (m *Schema) Current(), part_000:246.
Schema_Current(w, t) == Schema_Since(w, SchemaRefreshInterval, t)

\* NewSchema, part_000:149-158.
NewSchema ==
    [SourceSchemas |-> {}, tableSources |-> EmptyMap, tableMap |-> EmptyMap,
     tableNames |-> <<>>, lastRefreshed |-> ZeroTime]

\* NewSourceSchema, part_000:313-322, with the fields its owner then sets:
\* Conf.TablesToLoad, Schema, DS.
NewSourceSchema(tablesToLoad, hasSchema, d) ==
    [TablesToLoad |-> tablesToLoad, Schema |-> hasSchema, DS |-> d,
     tableMap |-> EmptyMap, tableNames |-> <<>>]

\* The table names the calls that name a SourceSchema are made with.
CallNames(s) == IF s = "s1" THEN Names ELSE {<<98>>}

NoCall == [op |-> "none", name |-> <<>>, ret |-> NoSS, tbl |-> Nil,
           err |-> ErrNil, dsCalls |-> 0, ok |-> FALSE]

\* A DataSource made for s1.
NewDataSource(provider) == [tables |-> <<>>, provider |-> provider, owner |-> "s1"]

SetWorld(w) ==
    /\ schema' = w.schema
    /\ ss' = w.ss
    /\ ds' = w.ds
    /\ tables' = w.tables
    /\ UNCHANGED <<sqlVars, threads, clockVars, vm, theTable>>

Idle == last.op = "none"

Returns(op, name, r) ==
    last' = [op |-> op, name |-> name, ret |-> r.ss, tbl |-> r.tbl,
             err |-> r.err, dsCalls |-> r.dsCalls, ok |-> FALSE]

\* A call that hands nothing back leaves nothing for the caller to take.
NoResult == last' = NoCall

CallSchemaAddTableName ==
    /\ Idle
    /\ \E s \in SS : \E n \in CallNames(s) :
        LET w == Schema_AddTableName(World, n, s) IN
        /\ SetWorld(w)
        /\ NoResult

CallSourceSchemaAddTableName ==
    /\ Idle
    /\ \E s \in SS : \E n \in CallNames(s) :
        LET w == SourceSchema_AddTableName(World, s, n) IN
        /\ SetWorld(w)
        /\ NoResult

\* ss.AddTable(NewTable(name, ss)).
CallSourceSchemaAddTable ==
    /\ Idle
    /\ \E s \in SS : \E n \in CallNames(s) :
        /\ Len(tables) < MaxTables
        /\ LET w1 == [World EXCEPT !.tables = Append(@, NewTable(n, s))]
               w == SourceSchema_AddTable(w1, s, Len(w1.tables))
           IN  /\ SetWorld(w)
               /\ NoResult

\* ss.AddTable(tbl) again, for a table made for ss earlier.
CallSourceSchemaAddTableAgain ==
    /\ Idle
    /\ \E t \in 1..Len(tables) :
        LET s == tables[t].SourceSchema
            w == SourceSchema_AddTable(World, s, t)
        IN  /\ SetWorld(w)
            /\ NoResult

CallAddSourceSchema ==
    /\ Idle
    /\ \E s \in SS :
        \E order \in Orders(schema.SourceSchemas \cup {s}) :
            LET w == Schema_AddSourceSchema(World, s, order) IN
            /\ SetWorld(w)
            /\ last' = [NoCall EXCEPT !.op = "Schema.AddSourceSchema"]

CallRefreshSchema ==
    /\ Idle
    /\ \E order \in Orders(schema.SourceSchemas) :
        LET w == Schema_RefreshSchema(World, order) IN
        /\ SetWorld(w)
        /\ last' = [NoCall EXCEPT !.op = "Schema.RefreshSchema"]

CallSource ==
    /\ Idle
    /\ \E n \in Names :
        \E order, order2 \in Orders(schema.SourceSchemas) :
            LET r == Schema_Source(World, n, order, order2) IN
            /\ SetWorld(r.w)
            /\ Returns("Schema.Source", n,
                       [w |-> r.w, ss |-> r.ss, tbl |-> Nil, err |-> r.err,
                        dsCalls |-> 0])

CallSchemaTable ==
    /\ Idle
    /\ \E n \in Names, dsOk \in BOOLEAN :
        /\ dsOk => Len(tables) < MaxTables
        /\ LET r == Schema_Table(World, n, dsOk) IN
           /\ SetWorld(r.w)
           /\ Returns("Schema.Table", n,
                      [w |-> r.w, ss |-> NoSS, tbl |-> r.tbl, err |-> r.err,
                       dsCalls |-> r.dsCalls])

CallSourceSchemaTable ==
    /\ Idle
    /\ \E s \in SS, dsOk \in BOOLEAN : \E n \in CallNames(s) :
        /\ dsOk => Len(tables) < MaxTables
        /\ LET r == SourceSchema_Table(World, s, n, dsOk) IN
           /\ SetWorld(r.w)
           /\ Returns("SourceSchema.Table", n,
                      [w |-> r.w, ss |-> NoSS, tbl |-> r.tbl, err |-> r.err,
                       dsCalls |-> r.dsCalls])

\* What Tables() of a DataSource may list over time: the backend starts
\* empty and gets one table after another, along one of these lists.
\* The backend of a DataSource gets a new table: Tables() lists one more name.
DataSourceListsTable ==
    /\ Idle
    /\ \E d \in DS, n \in Names :
        /\ \E s \in SS : ss[s].DS = d
        /\ Append(ds[d].tables, n) \in
               {<<>>, << <<97>> >>, << <<97>>, <<98>> >>, << <<65>> >>}
        /\ ds' = [ds EXCEPT ![d].tables = Append(@, n)]
        /\ last' = NoCall
        /\ UNCHANGED <<schema, ss, tables, sqlVars, threads, clockVars, vm, theTable>>

\* The caller takes the results of the call.
Return ==
    /\ ~Idle
    /\ last' = NoCall
    /\ UNCHANGED <<schema, ss, ds, tables, sqlVars, threads, clockVars, vm, theTable>>

RegNext ==
    \/ Return
    \/ CallSchemaAddTableName
    \/ CallSourceSchemaAddTableName
    \/ CallSourceSchemaAddTable
    \/ CallSourceSchemaAddTableAgain
    \/ CallAddSourceSchema
    \/ CallRefreshSchema
    \/ CallSource
    \/ CallSchemaTable
    \/ CallSourceSchemaTable
    \/ DataSourceListsTable

(***************************************************************************)
(* schema package: threads on one Schema                                   *)
(*                                                                         *)
(* The Schema has no lock (part_000:46-53 declares none, and no method     *)
(* takes one), so the statements of concurrent calls interleave.  A thread *)
(* runs one call, Schema.AddTableName(arg, s1) or Schema.Table(arg), one   *)
(* read or write of the Schema's fields at a time.                         *)
(***************************************************************************)
Threads == {"t1", "t2"}

NewThread(call) ==
    [pc |-> IF call.op = "Schema.Table" THEN "lookup" ELSE "scan",
     op |-> call.op, arg |-> call.arg,
     tableName |-> call.arg, src |-> "s1", snap |-> <<>>, tbl |-> Nil, err |-> ErrNil]

NoThreads == [t \in Threads |-> [NewThread([op |-> "none", arg |-> <<>>])
                                    EXCEPT !.pc = "done"]]

\* The registry the threads start on: s1, with the SchemaProvider d1 that
\* lists "a", has been registered, so "a" is a placeholder of the Schema.
ConcStart ==
    LET w0 == [schema |-> NewSchema,
               ss |-> [s \in SS |-> IF s = "s1" THEN NewSourceSchema(<<>>, TRUE, "d1")
                                    ELSE NewSourceSchema(<<>>, TRUE, NoDS)],
               ds |-> [d \in DS |-> [NewDataSource(TRUE) EXCEPT !.tables = << <<97>> >>]],
               tables |-> <<>>]
    IN  Schema_AddSourceSchema(w0, "s1", <<"s1">>)

ConcFrame == UNCHANGED <<ss, ds, last, sqlVars, clockVars, vm, theTable>>

At(t, pc) == threads[t].pc = pc
Goto(t, pc) == threads' = [threads EXCEPT ![t].pc = pc]

\* for _, curTableName := range m.tableNames { ... }, part_000:281-287.
ThreadScan(t) ==
    /\ At(t, "scan")
    /\ Goto(t, IF Contains(schema.tableNames, threads[t].tableName)
               THEN "done" ELSE "appendRead")
    /\ UNCHANGED <<schema, tables>>
    /\ ConcFrame

\* m.tableNames = append(m.tableNames, tableName), part_000:288: the read of
\* the slice ...
ThreadAppendRead(t) ==
    /\ At(t, "appendRead")
    /\ threads' = [threads EXCEPT ![t].snap = schema.tableNames,
                                  ![t].pc = "appendWrite"]
    /\ UNCHANGED <<schema, tables>>
    /\ ConcFrame

\* ... and the write of the longer slice.
ThreadAppendWrite(t) ==
    /\ At(t, "appendWrite")
    /\ schema' = [schema EXCEPT !.tableNames = Append(threads[t].snap,
                                                      threads[t].tableName)]
    /\ Goto(t, "sort")
    /\ UNCHANGED tables
    /\ ConcFrame

\* sort.Strings(m.tableNames), part_000:289.
ThreadSort(t) ==
    /\ At(t, "sort")
    /\ schema' = [schema EXCEPT !.tableNames = SortStrings(@)]
    /\ Goto(t, "mapCheck")
    /\ UNCHANGED tables
    /\ ConcFrame

\* if _, ok := m.tableMap[tableName]; !ok, part_000:290.
ThreadMapCheck(t) ==
    /\ At(t, "mapCheck")
    /\ Goto(t, IF Has(schema.tableMap, threads[t].tableName) THEN "done" ELSE "mapWrite")
    /\ UNCHANGED <<schema, tables>>
    /\ ConcFrame

\* m.tableSources[tableName] = ss; m.tableMap[tableName] = nil, part_000:291-292.
ThreadMapWrite(t) ==
    /\ At(t, "mapWrite")
    /\ schema' = [schema EXCEPT
                     !.tableSources = MapPut(@, threads[t].tableName, threads[t].src),
                     !.tableMap = MapPut(@, threads[t].tableName, Nil)]
    /\ Goto(t, "done")
    /\ UNCHANGED tables
    /\ ConcFrame

\* Schema.Table, part_000:249-254.
ThreadLookup(t) ==
    /\ At(t, "lookup")
    /\ LET n == threads[t].tableName IN
       IF Has(schema.tableMap, n) /\ schema.tableMap[n] # Nil
       THEN threads' = [threads EXCEPT ![t].tbl = schema.tableMap[n], ![t].pc = "done"]
       ELSE threads' = [threads EXCEPT ![t].tableName = ToLower(LeftRight(n)),
                                       ![t].pc = "find"]
    /\ UNCHANGED <<schema, tables>>
    /\ ConcFrame

\* Schema.findTable up to the DataSource, part_000:257-265.
ThreadFind(t) ==
    /\ At(t, "find")
    /\ LET n == threads[t].tableName IN
       IF Has(schema.tableMap, n) /\ schema.tableMap[n] # Nil
       THEN threads' = [threads EXCEPT ![t].tbl = schema.tableMap[n], ![t].pc = "done"]
       ELSE IF Has(schema.tableSources, n)
               /\ IsSchemaProvider(World, ss[schema.tableSources[n]].DS)
       THEN threads' = [threads EXCEPT ![t].src = schema.tableSources[n],
                                       ![t].pc = "dsTable"]
       ELSE threads' = [threads EXCEPT ![t].err = ErrNoTable, ![t].pc = "done"]
    /\ UNCHANGED <<schema, tables>>
    /\ ConcFrame

\* tbl, err := sourceTable.Table(tableName), part_000:266.
ThreadDsTable(t) ==
    /\ At(t, "dsTable")
    /\ LET d == ss[threads[t].src].DS
           n == threads[t].tableName
       IN  IF DataSourceHas(World, d, n)
           THEN /\ tables' = WithNewTable(World, d, n).tables
                /\ threads' = [threads EXCEPT ![t].tbl = Len(tables) + 1,
                                              ![t].pc = "addTable"]
           ELSE /\ tables' = tables
                /\ threads' = [threads EXCEPT ![t].err = ErrDataSource,
                                              ![t].pc = "done"]
    /\ UNCHANGED schema
    /\ ConcFrame

\* Schema.addTable, part_000:297-299: the two map writes, then AddTableName.
ThreadAddTable(t) ==
    /\ At(t, "addTable")
    /\ LET tbl == tables[threads[t].tbl] IN
       /\ schema' = [schema EXCEPT
                        !.tableSources = MapPut(@, tbl.Name, tbl.SourceSchema),
                        !.tableMap = MapPut(@, tbl.Name, threads[t].tbl)]
       /\ threads' = [threads EXCEPT ![t].tableName = tbl.Name,
                                     ![t].src = tbl.SourceSchema,
                                     ![t].pc = "scan"]
    /\ UNCHANGED tables
    /\ ConcFrame

ConcNext ==
    \E t \in Threads :
        \/ ThreadScan(t)
        \/ ThreadAppendRead(t)
        \/ ThreadAppendWrite(t)
        \/ ThreadSort(t)
        \/ ThreadMapCheck(t)
        \/ ThreadMapWrite(t)
        \/ ThreadLookup(t)
        \/ ThreadFind(t)
        \/ ThreadDsTable(t)
        \/ ThreadAddTable(t)

(***************************************************************************)
(* schema package: the Schema and the clock                                *)
(***************************************************************************)
MaxNow == 8

Never == 0 - 1

ClockQuiet == now = 1 /\ refreshedAt = Never

\* s1, with the SchemaProvider d1 that lists "a", is about to be registered.
ClockStart ==
    [schema |-> NewSchema,
     ss |-> [s \in SS |-> IF s = "s1" THEN NewSourceSchema(<<>>, TRUE, "d1")
                          ELSE NewSourceSchema(<<>>, TRUE, NoDS)],
     ds |-> [d \in DS |-> [NewDataSource(TRUE) EXCEPT !.tables = << <<97>> >>]],
     tables |-> <<>>]

ClockSetWorld(w) ==
    /\ schema' = w.schema
    /\ ss' = w.ss
    /\ ds' = w.ds
    /\ tables' = w.tables
    /\ UNCHANGED <<now, sqlVars, threads, vm, theTable>>

\* Time passes between calls.
Tick ==
    /\ Idle
    /\ now < MaxNow
    /\ now' = now + 1
    /\ UNCHANGED <<regVars, refreshedAt, sqlVars, threads, vm, theTable>>

ClockAddSourceSchema ==
    /\ Idle
    /\ schema.SourceSchemas = {}
    /\ ClockSetWorld(Schema_AddSourceSchema(World, "s1", <<"s1">>))
    /\ refreshedAt' = now
    /\ last' = [NoCall EXCEPT !.op = "Schema.AddSourceSchema"]

ClockRefreshSchema ==
    /\ Idle
    /\ \E order \in Orders(schema.SourceSchemas) :
        ClockSetWorld(Schema_RefreshSchema(World, order))
    /\ refreshedAt' = now
    /\ last' = [NoCall EXCEPT !.op = "Schema.RefreshSchema"]

ClockSchemaTable ==
    /\ Idle
    /\ \E n \in {<<97>>, <<98>>} :
        LET r == Schema_Table(World, n, TRUE) IN
        /\ ClockSetWorld(r.w)
        /\ refreshedAt' = IF r.dsCalls > 0 /\ r.err = ErrNil THEN now ELSE refreshedAt
        /\ Returns("Schema.Table", n,
                   [w |-> r.w, ss |-> NoSS, tbl |-> r.tbl, err |-> r.err,
                    dsCalls |-> r.dsCalls])

ClockCurrent ==
    /\ Idle
    /\ last' = [NoCall EXCEPT !.op = "Schema.Current",
                              !.ok = Schema_Current(World, now)]
    /\ UNCHANGED <<schema, ss, ds, tables, clockVars, sqlVars, threads, vm, theTable>>

ClockNext ==
    \/ Tick
    \/ ClockAddSourceSchema
    \/ ClockRefreshSchema
    \/ ClockSchemaTable
    \/ ClockCurrent
    \/ Return

(***************************************************************************)
(* vm/vm.go: values                                                        *)
(***************************************************************************)
\* A value.Value: its kind and what it holds, as the numbers n and d: a
\* bool as n = 1 or 0, an int64 as n, a float64 as n and d, a string as its
\* place n in Strings.  NilIface is the nil interface, NilValueVal the
\* value.NilValue.
Strings == <<"", "bob", "1", "true", "a", "b", "missing_col", "b*", "[">>

NilIface == [kind |-> "nil", n |-> 0, d |-> 0]
NilValueVal == [kind |-> "Nil", n |-> 0, d |-> 0]
NewErrorValue == [kind |-> "Error", n |-> 0, d |-> 0]
NewBoolValue(b) == [kind |-> "Bool", n |-> IF b THEN 1 ELSE 0, d |-> 0]
NewIntValue(i) == [kind |-> "Int", n |-> i, d |-> 0]
NewStringValue(s) ==
    [kind |-> "String", n |-> CHOOSE i \in 1..Len(Strings) : Strings[i] = s,
     d |-> 0]

\* BoolValue.Val(), IntValue.Val(), StringValue.Val().
BoolVal(x) == x.n = 1
IntVal(x) == x.n
StringVal(x) == Strings[x.n]

\* A float64 is a fraction <<n, d>> in lowest terms with d > 0, or, with
\* d = 0, NaN (n = 0), +Inf (n = 1) or -Inf (n = -1).
NaN == <<0, 0>>

Abs(i) == IF i < 0 THEN 0 - i ELSE i
Sign(i) == IF i < 0 THEN 0 - 1 ELSE IF i > 0 THEN 1 ELSE 0

RECURSIVE Gcd(_, _)
Gcd(a, b) == IF b = 0 THEN a ELSE Gcd(b, a % b)

\* Go's integer division and remainder, which truncate towards zero.
GoQuo(a, b) == Sign(a) * Sign(b) * (Abs(a) \div Abs(b))
GoRem(a, b) == a - b * GoQuo(a, b)

\* The float64 n/d.
Float(n, d) ==
    IF d = 0 THEN <<Sign(n), 0>>
    ELSE LET g == Gcd(Abs(n), Abs(d)) IN <<Sign(d) * (n \div g), Abs(d) \div g>>

FloatLess(a, b) ==
    /\ a # NaN /\ b # NaN
    /\ IF a[2] = 0 /\ b[2] = 0 THEN a[1] < b[1]
       ELSE IF a[2] = 0 THEN a[1] < 0
       ELSE IF b[2] = 0 THEN b[1] > 0
       ELSE a[1] * b[2] < b[1] * a[2]
FloatEq(a, b) == a # NaN /\ b # NaN /\ a = b
\* int64(f) of a finite f.
FloatToInt(a) == GoQuo(a[1], a[2])

NewNumberValue(f) == [kind |-> "Number", n |-> f[1], d |-> f[2]]

\* NumberValue.Val().
NumberVal(x) == <<x.n, x.d>>

\* IntValue.NumberValue().
IntToNumber(av) == NewNumberValue(Float(IntVal(av), 1))

\* What the value package makes of a string.
StringNil(s) == s = ""
IsBool(s) == s \in {"true", "false"}
BoolStringVal(s) == s = "true"
StringIsNumber(s) == s = "1"
StringToNumber(s) == NewNumberValue(IF s = "1" THEN Float(1, 1) ELSE NaN)

\* value.Value.Nil() of a value.
Value_Nil(x) ==
    CASE x.kind \in {"nil", "Nil"} -> TRUE
      [] x.kind = "String" -> StringNil(StringVal(x))
      [] OTHER -> FALSE

(***************************************************************************)
(* vm/vm.go: operators                                                     *)
(***************************************************************************)
\* lex.Token.T of the binary operators: Token.Plus is lex.TokenPlus.
Token ==
    [Plus |-> "+", Minus |-> "-", Multiply |-> "*", Divide |-> "/",
     Modulus |-> "%", EqualEqual |-> "==", Equal |-> "=", NE |-> "!=",
     LT |-> "<", GT |-> ">", LE |-> "<=", GE |-> ">=",
     LogicOr |-> "||", LogicAnd |-> "&&", Like |-> "LIKE"]
Operators == {Token[t] : t \in DOMAIN Token}

\* A panic: the kind of value it carries.
NoPanic == "none"
RuntimeError == "runtime.Error"    \* integer divide by zero
ErrorPanic == "error"              \* panic(fmt.Errorf(...)), panic(err)
OtherPanic == "string"             \* panic("...") and other values

\* What a function of the vm hands back: a value and an error, or a panic.
Ret(val, err) == [val |-> val, err |-> err, panic |-> NoPanic]
Panics(p) == [val |-> NilIface, err |-> NoErr, panic |-> p]

BoolValue(b) == Ret(NewBoolValue(b), NoErr)

\* operateInts, vm.go:763-839.
operateInts(op, av, bv) ==
    LET a == IntVal(av)
        b == IntVal(bv)
    IN  CASE op = Token.Plus -> Ret(NewIntValue(a + b), NoErr)
          [] op = Token.Multiply -> Ret(NewIntValue(a * b), NoErr)
          [] op = Token.Minus -> Ret(NewIntValue(a - b), NoErr)
          [] op = Token.Divide ->
                IF b = 0 THEN Panics(RuntimeError)
                ELSE Ret(NewIntValue(GoQuo(a, b)), NoErr)
          [] op = Token.Modulus ->
                IF b = 0 THEN Panics(RuntimeError)
                ELSE Ret(NewIntValue(GoRem(a, b)), NoErr)
          [] op = Token.EqualEqual -> BoolValue(a = b)
          [] op = Token.GT -> BoolValue(a > b)
          [] op = Token.NE -> BoolValue(a # b)
          [] op = Token.LT -> BoolValue(a < b)
          [] op = Token.GE -> BoolValue(a >= b)
          [] op = Token.LE -> BoolValue(a <= b)
          [] op = Token.LogicOr -> BoolValue(a # 0 \/ b # 0)
          [] op = Token.LogicAnd -> BoolValue(a # 0 /\ b # 0)
          [] OTHER -> Panics(ErrorPanic)

\* operateNumbers, vm.go:651-729.
operateNumbers(op, av, bv) ==
    LET a == NumberVal(av)
        b == NumberVal(bv)
        zero == Float(0, 1)
    IN  IF op \in {Token.Plus, Token.Multiply, Token.Divide, Token.Minus, Token.Modulus}
           /\ (a = NaN \/ b = NaN)
        THEN Ret(NewNumberValue(NaN), NoErr)
        ELSE CASE op = Token.Plus -> Ret(NewNumberValue(Float(a[1] * b[2] + b[1] * a[2], a[2] * b[2])), NoErr)
               [] op = Token.Multiply -> Ret(NewNumberValue(Float(a[1] * b[1], a[2] * b[2])), NoErr)
               [] op = Token.Minus -> Ret(NewNumberValue(Float(a[1] * b[2] - b[1] * a[2], a[2] * b[2])), NoErr)
               [] op = Token.Divide -> Ret(NewNumberValue(Float(a[1] * b[2], a[2] * b[1])), NoErr)
               [] op = Token.Modulus ->
                     IF FloatToInt(b) = 0 THEN Panics(RuntimeError)
                     ELSE Ret(NewNumberValue(Float(GoRem(FloatToInt(a), FloatToInt(b)), 1)),
                              NoErr)
               [] op \in {Token.EqualEqual, Token.Equal} -> BoolValue(FloatEq(a, b))
               [] op = Token.GT -> BoolValue(FloatLess(b, a))
               [] op = Token.NE -> BoolValue(~FloatEq(a, b))
               [] op = Token.LT -> BoolValue(FloatLess(a, b))
               [] op = Token.GE -> BoolValue(FloatLess(b, a) \/ FloatEq(a, b))
               [] op = Token.LE -> BoolValue(FloatLess(a, b) \/ FloatEq(a, b))
               [] op = Token.LogicOr ->
                     BoolValue(~FloatEq(a, zero) \/ ~FloatEq(b, zero))
               [] op = Token.LogicAnd ->
                     BoolValue(~FloatEq(a, zero) /\ ~FloatEq(b, zero))
               [] OTHER -> Panics(ErrorPanic)

\* The characters of the strings that reach LIKE.
Runes(s) ==
    CASE s = "bob" -> <<"b", "o", "b">>
      [] s = "true" -> <<"t", "r", "u", "e">>
      [] s = "b*" -> <<"b", "*">>
      [] OTHER -> IF s = "" THEN <<>> ELSE <<s>>

\* The match of a well-formed pattern: * is any run of characters, ? any one
\* character, any other character itself.  No pattern of the model has a
\* well-formed character class.
RECURSIVE GlobMatch(_, _)
GlobMatch(p, s) ==
    IF p = <<>> THEN s = <<>>
    ELSE IF p[1] = "*"
         THEN GlobMatch(Tail(p), s) \/ (s # <<>> /\ GlobMatch(p, Tail(s)))
    ELSE /\ s # <<>>
         /\ p[1] = "?" \/ p[1] = s[1]
         /\ GlobMatch(Tail(p), Tail(s))

\* glob.Match(pattern, name): no match and an error for a pattern with a
\* character class that is not closed.
Match(pattern, name) ==
    LET p == Runes(pattern)
        open == {i \in 1..Len(p) : p[i] = "["}
        bad == \E i \in open : \A j \in (i + 1)..Len(p) : p[j] # "]"
    IN  IF bad THEN [match |-> FALSE, err |-> "bad pattern"]
        ELSE [match |-> GlobMatch(p, Runes(name)), err |-> NoErr]

\* operateStrings, vm.go:731-761.  The ErrorValue that LIKE makes for an
\* error of glob.Match is not returned (vm.go:752-754).
operateStrings(op, av, bv) ==
    CASE op \in {Token.EqualEqual, Token.Equal} -> BoolValue(StringVal(av) = StringVal(bv))
      [] op = Token.NE -> BoolValue(StringVal(av) # StringVal(bv))
      [] op = Token.Like -> BoolValue(Match(StringVal(bv), StringVal(av)).match)
      [] OTHER -> Ret(NewErrorValue, NoErr)

(***************************************************************************)
(* vm/vm.go: the walkers                                                   *)
(***************************************************************************)
\* expr.Node: the nodes of the model.
NilNode == [type |-> "nil"]
IdentityNode(text) == [type |-> "Identity", Text |-> text]
StringNode(text) == [type |-> "String", Text |-> text]
\* A number literal of the whole number i: an integer literal, or the float
\* literal with the text of i.
NumberNode(isInt, i) ==
    [type |-> "Number", IsInt |-> isInt, IsFloat |-> ~isInt, Int64 |-> i]
TriNode(a, b, c) == [type |-> "Tri", Operator |-> "BETWEEN", Args |-> <<a, b, c>>]
FuncNode(f) == [type |-> "Func", F |-> f]
BinaryNode(op, l, r) == [type |-> "Binary", Operator |-> op, Args |-> <<l, r>>]

\* The columns of a row, a read context holding the row, and no read
\* context (ctx == nil).
Columns == {"a", "b"}
RowCtx(row) == [isNil |-> FALSE, row |-> row]
NoCtx == [isNil |-> TRUE, row |-> [c \in Columns |-> NilIface]]

\* ctx.Get(name): the value of the column, or nil with no error for a
\* column the row does not have.
ContextGet(ctx, name) ==
    IF name \in DOMAIN ctx.row THEN Ret(ctx.row[name], NoErr)
    ELSE Ret(NilIface, NoErr)

\* walkIdentity, vm.go:388-399.
walkIdentity(ctx, node) ==
    IF node.Text \in {"true", "false"} THEN BoolValue(node.Text = "true")
    ELSE IF ctx.isNil THEN Ret(NewStringValue(node.Text), NoErr)
    ELSE ContextGet(ctx, node.Text)

\* numberNodeToValue, vm.go:135-153.  value.ToFloat64 of the text of a float
\* literal gives its number.
numberNodeToValue(t) ==
    IF t.IsInt THEN Ret(NewIntValue(t.Int64), NoErr)
    ELSE IF t.IsFloat THEN Ret(NewNumberValue(Float(t.Int64, 1)), NoErr)
    ELSE Ret(NilValueVal, NoErr)

\* What calling the host function of a FuncNode does: it returns a value,
\* returns not ok, or panics with an error, with a value that is no error,
\* or with a runtime error.
HostFuncs == {"returns", "not ok", "panics with an error",
              "panics with a string", "panics with a runtime error"}

\* walkFunc, vm.go:557-649, of a function without arguments.
walkFunc(ctx, node) ==
    CASE node.F = "returns" -> Ret(NewIntValue(1), NoErr)
      [] node.F = "not ok" -> Ret(NewStringValue(""), "not ok")
      [] node.F = "panics with an error" -> Panics(ErrorPanic)
      [] node.F = "panics with a string" -> Panics(OtherPanic)
      [] node.F = "panics with a runtime error" -> Panics(RuntimeError)

\* The tail of walkBinary, vm.go:385, and its other fmt.Errorf returns.
Unsupported == Ret(NilIface, "unsupported")

IsNilKind(x) == x.kind \in {"nil", "Nil"}

\* The type switch of walkBinary, vm.go:234-386, on the operand values.
walkBinary(op, ar, br) ==
    CASE ar.kind = "Int" ->
            CASE br.kind = "Int" -> operateInts(op, ar, br)
              [] br.kind = "Number" -> operateNumbers(op, IntToNumber(ar), br)
              [] OTHER -> Unsupported
      [] ar.kind = "Number" ->
            CASE br.kind = "Int" -> operateNumbers(op, ar, IntToNumber(br))
              [] br.kind = "Number" -> operateNumbers(op, ar, br)
              [] OTHER -> Unsupported
      [] ar.kind = "Bool" ->
            CASE br.kind = "Bool" ->
                    CASE op = Token.LogicAnd -> BoolValue(BoolVal(ar) /\ BoolVal(br))
                      [] op = Token.LogicOr -> BoolValue(BoolVal(ar) \/ BoolVal(br))
                      [] op \in {Token.EqualEqual, Token.Equal} -> BoolValue(BoolVal(ar) = BoolVal(br))
                      [] op = Token.NE -> BoolValue(BoolVal(ar) # BoolVal(br))
                      [] OTHER -> Unsupported
              [] IsNilKind(br) ->
                    CASE op = Token.LogicAnd -> BoolValue(FALSE)
                      [] op = Token.LogicOr -> Ret(ar, NoErr)
                      [] op \in {Token.EqualEqual, Token.Equal} -> BoolValue(FALSE)
                      [] op = Token.NE -> BoolValue(TRUE)
                      [] OTHER -> Ret(NilIface, NoErr)
              [] OTHER -> Unsupported
      [] ar.kind = "String" ->
            CASE br.kind = "String" -> operateStrings(op, ar, br)
              [] IsNilKind(br) ->
                    CASE op \in {Token.EqualEqual, Token.Equal} -> BoolValue(StringNil(StringVal(ar)))
                      [] op = Token.NE -> BoolValue(~StringNil(StringVal(ar)))
                      [] OTHER -> Unsupported
              [] br.kind = "Bool" ->
                    IF IsBool(StringVal(ar))
                    THEN CASE op \in {Token.EqualEqual, Token.Equal} ->
                                 BoolValue(BoolStringVal(StringVal(ar)) = BoolVal(br))
                           [] op = Token.NE -> BoolValue(BoolStringVal(StringVal(ar)) # BoolVal(br))
                           [] OTHER -> Unsupported
                    ELSE Unsupported
              [] OTHER ->
                    IF StringIsNumber(StringVal(ar))
                    THEN CASE br.kind = "Int" ->
                                 operateNumbers(op, StringToNumber(StringVal(ar)), IntToNumber(br))
                           [] br.kind = "Number" ->
                                 operateNumbers(op, StringToNumber(StringVal(ar)), br)
                           [] OTHER -> Unsupported
                    ELSE Unsupported
      [] IsNilKind(ar) ->
            CASE op = Token.LogicAnd -> BoolValue(FALSE)
              [] op = Token.LogicOr ->
                    IF br.kind = "Bool" THEN Ret(br, NoErr) ELSE BoolValue(FALSE)
              [] op \in {Token.EqualEqual, Token.Equal} -> BoolValue(IsNilKind(br))
              [] op = Token.NE -> BoolValue(TRUE)
              [] OTHER -> Ret(NilIface, NoErr)
      [] OTHER -> Unsupported

\* The switch of walkTri on the operand values, vm.go:454-492, for BETWEEN.
\* A second result of false is the error "not ok".  a.Type() of a nil
\* interface is a nil dereference.
walkTri(a, b, c) ==
    CASE a.kind = "nil" -> Panics(RuntimeError)
      [] a.kind = "Int" ->
            IF b.kind = "Int" /\ c.kind = "Int"
            THEN BoolValue(IntVal(a) > IntVal(b) /\ IntVal(a) < IntVal(c))
            ELSE Ret(NewBoolValue(FALSE), "not ok")
      [] a.kind = "Number" ->
            IF b.kind = "Number" /\ c.kind = "Number"
            THEN IF FloatLess(NumberVal(b), NumberVal(a))
                    /\ FloatLess(NumberVal(a), NumberVal(c))
                 THEN Ret(NewBoolValue(TRUE), "not ok")
                 ELSE BoolValue(FALSE)
            ELSE Ret(NewBoolValue(FALSE), "not ok")
      [] OTHER -> Ret(NilValueVal, "not ok")

\* Eval, vm.go:181-206, with the heads of walkBinary, vm.go:213-223, and of
\* walkTri, vm.go:446-453 (a panic of an operand ends the call before the
\* next one is evaluated).
RECURSIVE Walk(_, _)
Walk(ctx, arg) ==
    CASE arg.type = "Number" -> numberNodeToValue(arg)
      [] arg.type = "Binary" ->
            LET a == Walk(ctx, arg.Args[1]) IN
            IF a.panic # NoPanic THEN a
            ELSE LET b == Walk(ctx, arg.Args[2]) IN
                 IF b.panic # NoPanic THEN b
                 ELSE IF a.err # NoErr \/ b.err # NoErr THEN Unsupported
                 ELSE walkBinary(arg.Operator, a.val, b.val)
      [] arg.type = "Tri" ->
            LET a == Walk(ctx, arg.Args[1]) IN
            IF a.panic # NoPanic THEN a
            ELSE LET b == Walk(ctx, arg.Args[2]) IN
                 IF b.panic # NoPanic THEN b
                 ELSE LET c == Walk(ctx, arg.Args[3]) IN
                      IF c.panic # NoPanic THEN c
                      ELSE IF a.err # NoErr \/ b.err # NoErr \/ c.err # NoErr
                      THEN Ret(NewBoolValue(FALSE), "not ok")
                      ELSE walkTri(a.val, b.val, c.val)
      [] arg.type = "Func" -> walkFunc(ctx, arg)
      [] arg.type = "Identity" -> walkIdentity(ctx, arg)
      [] arg.type = "String" -> Ret(NewStringValue(arg.Text), NoErr)
      [] arg.type = "nil" -> Ret(NilIface, NoErr)

\* errRecover, vm.go:119-131: what Execute does with the panic p of the
\* walk.  A runtime error and a value that is no error are raised again; an
\* error becomes the error Execute returns.
errRecover(p) ==
    CASE p = RuntimeError -> [err |-> NoErr, panic |-> p]
      [] p = ErrorPanic -> [err |-> ErrorPanic, panic |-> NoPanic]
      [] OTHER -> [err |-> NoErr, panic |-> p]

\* (m *Vm) Execute(writeContext, readContext), vm.go:92-115, on the tree
\* with the given root.  puts are the Puts the write context receives.
Vm_Execute(ctx, root) ==
    LET r == Walk(ctx, root) IN
    IF r.panic # NoPanic
    THEN LET e == errRecover(r.panic) IN
         [err |-> e.err, panic |-> e.panic, puts |-> <<>>]
    ELSE IF r.err # NoErr THEN [err |-> r.err, panic |-> NoPanic, puts |-> <<>>]
    ELSE IF r.val.kind = "Error" THEN [err |-> ErrVal, panic |-> NoPanic, puts |-> <<>>]
    ELSE [err |-> NoErr, panic |-> NoPanic, puts |-> <<r.val>>]

\* EvalSql of SELECT ... WHERE where, without columns, on the row ctx.
\* outcome is the one of GuardNodes that EvalSql's switch on the result of
\* Eval sees.
EvalSqlWhere(ctx, where) ==
    LET r == Walk(ctx, where)
        outcome ==
            IF r.err # NoErr THEN "GoErr"
            ELSE CASE r.val.kind = "Bool" ->
                         IF BoolVal(r.val) THEN "BoolTrue" ELSE "BoolFalse"
                   [] r.val.kind = "Nil" -> "NilValue"
                   [] r.val.kind = "nil" -> "NilIface"
                   [] r.val.kind = "Error" -> "ErrorValue"
                   [] OTHER -> IF Value_Nil(r.val) THEN "EmptyString" ELSE "IntValue"
    IN  IF r.panic # NoPanic THEN [keep |-> FALSE, err |-> NoErr, panic |-> r.panic]
        ELSE LET e == EvalSql([Where |-> outcome, Columns |-> <<>>], <<>>)
             IN  [keep |-> e.keep, err |-> e.err, panic |-> NoPanic]

(***************************************************************************)
(* vm/vm.go: the calls                                                     *)
(***************************************************************************)
\* The values a row holds.
Values ==
    {NilValueVal, NewErrorValue}
        \cup {NewBoolValue(b) : b \in BOOLEAN}
        \cup {NewIntValue(i) : i \in {0, 1, 2}}
        \cup {NewNumberValue(f) : f \in {Float(0, 1), Float(1, 1), Float(3, 2), NaN}}
        \cup {NewStringValue(s) : s \in {"", "bob", "1", "true"}}

\* The expressions: a column or a missing column against a column, a string
\* literal or an integer literal; a call of a host function; no node.
Nodes ==
    {BinaryNode(op, l, r) :
        op \in Operators,
        l \in {IdentityNode("a"), IdentityNode("missing_col")},
        r \in {IdentityNode("b"), StringNode("bob"), NumberNode(TRUE, 0)}}
        \cup {BinaryNode(Token.Like, IdentityNode("a"), StringNode(p)) : p \in {"b*", "["}}
        \cup {TriNode(IdentityNode("a"), IdentityNode("b"), NumberNode(isInt, 2)) :
                 isInt \in BOOLEAN}
        \cup {FuncNode(f) : f \in HostFuncs}
        \cup {NilNode, IdentityNode("true"), IdentityNode("a")}

NoVm == [pc |-> "idle", call |-> "none", ctx |-> NoCtx, node |-> NilNode,
         val |-> NilIface, err |-> NoErr, panic |-> NoPanic, puts |-> <<>>,
         keep |-> FALSE]

\* Eval(ctx, node).
CallEval ==
    /\ vm.pc = "idle"
    /\ LET r == Walk(vm.ctx, vm.node) IN
       vm' = [vm EXCEPT !.pc = "done", !.call = "Eval", !.val = r.val,
                        !.err = r.err, !.panic = r.panic]
    /\ UNCHANGED <<sqlVars, regVars, threads, clockVars, theTable>>

\* EvalSql(sel, writeContext, ctx) with the node as sel.Where.
CallEvalSqlWhere ==
    /\ vm.pc = "idle"
    /\ LET r == EvalSqlWhere(vm.ctx, vm.node) IN
       vm' = [vm EXCEPT !.pc = "done", !.call = "EvalSql", !.keep = r.keep,
                        !.err = r.err, !.panic = r.panic]
    /\ UNCHANGED <<sqlVars, regVars, threads, clockVars, theTable>>

\* vm.Execute(writeContext, ctx) of the Vm whose tree has the node as root.
CallExecute ==
    /\ vm.pc = "idle"
    /\ LET r == Vm_Execute(vm.ctx, vm.node) IN
       vm' = [vm EXCEPT !.pc = "done", !.call = "Execute", !.puts = r.puts,
                        !.err = r.err, !.panic = r.panic]
    /\ UNCHANGED <<sqlVars, regVars, threads, clockVars, theTable>>

VmNext ==
    \/ CallEval
    \/ CallEvalSqlWhere
    \/ CallExecute

(***************************************************************************)
(* schema package: the Fields of a Table                                   *)
(***************************************************************************)
\* A Table without Fields, as NewTable makes it (part_000:405-416).  A *Field
\* is the position of the Field object in heap.
NoFields == [Fields |-> <<>>, FieldMap |-> EmptyMap, heap |-> <<>>]

FieldNames == {"x", "y", "z"}

\* (m *Table) AddField(fld), part_000:440-454.  Field.idx counts from 0.
Table_AddField(t, fld) ==
    LET name == t.heap[fld].Name
        same == {i \in 1..Len(t.Fields) : t.heap[t.Fields[i]].Name = name}
        first == CHOOSE i \in same : \A j \in same : i <= j
        t1 == IF same # {} THEN [t EXCEPT !.Fields[first] = fld]
              ELSE [t EXCEPT !.heap[fld].idx = Len(t.Fields),
                             !.Fields = Append(@, fld)]
    IN  [t1 EXCEPT !.FieldMap = MapPut(@, name, fld)]

\* (m *Table) AddFieldType(name, valType), part_000:456-458: AddField of a
\* new Field, whose idx is the zero value.
CallAddFieldType ==
    /\ Len(theTable.heap) < MaxFields
    /\ \E name \in FieldNames :
          LET t == [theTable EXCEPT !.heap = Append(@, [Name |-> name, idx |-> 0])]
          IN  theTable' = Table_AddField(t, Len(t.heap))
    /\ UNCHANGED <<sqlVars, regVars, threads, clockVars, vm>>

\* AddField of a Field the caller added before.
CallAddField ==
    /\ \E fld \in 1..Len(theTable.heap) : theTable' = Table_AddField(theTable, fld)
    /\ UNCHANGED <<sqlVars, regVars, threads, clockVars, vm>>

FieldsNext ==
    \/ CallAddFieldType
    \/ CallAddField

(***************************************************************************)
(* Specifications                                                          *)
(***************************************************************************)
SqlNext == CallEvalSql \/ NextRow

\* The registry is not touched by EvalSql, nor the row evaluator by the
\* registry.
SqlQuiet ==
    /\ sqlPc = "idle"
    /\ sel = NoSelect
    /\ writeContext = <<>>
    /\ writeContext0 = <<>>
    /\ evalLog = <<>>
    /\ sqlKeep = TRUE
    /\ sqlErr = NoErr

RegQuiet ==
    /\ schema = NewSchema
    /\ ss = [s \in SS |-> NewSourceSchema(<<>>, FALSE, NoDS)]
    /\ ds = [d \in DS |-> NewDataSource(FALSE)]
    /\ tables = <<>>
    /\ last = NoCall

\* Each specification starts the variables of the other parts at rest.
InitSql ==
    /\ sqlPc = "idle"
    /\ sel = NoSelect
    /\ writeContext \in EarlierPuts
    /\ writeContext0 = writeContext
    /\ evalLog = <<>>
    /\ sqlKeep = TRUE
    /\ sqlErr = NoErr
    /\ RegQuiet
    /\ threads = NoThreads
    /\ ClockQuiet
    /\ vm = NoVm
    /\ theTable = NoFields

SpecSql == InitSql /\ [][SqlNext]_vars

\* The configurations the registry starts from.  s2 has its Schema pointer
\* set, no TablesToLoad and no DataSource.  s1 is the usual SourceSchema (its
\* Schema pointer set, no TablesToLoad, a DataSource), or differs from it in
\* one respect: a TablesToLoad list, no Schema pointer, or no DataSource.
Init ==
    /\ schema = NewSchema
    /\ \E c \in {NewSourceSchema(<<>>, TRUE, "d1"),
                  NewSourceSchema(<< <<65>> >>, TRUE, "d1"),
                  NewSourceSchema(<<>>, FALSE, "d1"),
                  NewSourceSchema(<<>>, TRUE, NoDS)} :
          ss = [s \in SS |-> IF s = "s1" THEN c
                             ELSE NewSourceSchema(<<>>, TRUE, NoDS)]
    /\ \E p \in BOOLEAN :
          /\ ss["s1"] # NewSourceSchema(<<>>, TRUE, "d1") => p = TRUE
          /\ ds = [d \in DS |-> NewDataSource(p)]
    /\ tables = <<>>
    /\ last = NoCall
    /\ SqlQuiet
    /\ threads = NoThreads
    /\ ClockQuiet
    /\ vm = NoVm
    /\ theTable = NoFields

Spec == Init /\ [][RegNext]_vars

\* Each thread makes one call of Schema.AddTableName or Schema.Table.
InitConc ==
    /\ schema = ConcStart.schema
    /\ ss = ConcStart.ss
    /\ ds = ConcStart.ds
    /\ tables = ConcStart.tables
    /\ last = NoCall
    /\ threads \in [Threads -> {NewThread([op |-> o, arg |-> n]) :
                                    o \in {"Schema.AddTableName", "Schema.Table"},
                                    n \in Names}]
    /\ SqlQuiet
    /\ ClockQuiet
    /\ vm = NoVm
    /\ theTable = NoFields

SpecConc == InitConc /\ [][ConcNext]_vars

InitClock ==
    /\ schema = ClockStart.schema
    /\ ss = ClockStart.ss
    /\ ds = ClockStart.ds
    /\ tables = ClockStart.tables
    /\ last = NoCall
    /\ ClockQuiet
    /\ SqlQuiet
    /\ threads = NoThreads
    /\ vm = NoVm
    /\ theTable = NoFields

SpecClock == InitClock /\ [][ClockNext]_vars

\* A call of the vm is of one read context, a row or none, and one expression.
InitVm ==
    /\ \E ctx \in {RowCtx(row) : row \in [Columns -> Values]} \cup {NoCtx},
          node \in Nodes :
          vm = [NoVm EXCEPT !.ctx = ctx, !.node = node]
    /\ SqlQuiet
    /\ RegQuiet
    /\ threads = NoThreads
    /\ ClockQuiet
    /\ theTable = NoFields

SpecVm == InitVm /\ [][VmNext]_vars

InitFields ==
    /\ theTable = NoFields
    /\ SqlQuiet
    /\ RegQuiet
    /\ threads = NoThreads
    /\ ClockQuiet
    /\ vm = NoVm

SpecFields == InitFields /\ [][FieldsNext]_vars

(***************************************************************************)
(* Claims about EvalSql                                                    *)
(***************************************************************************)
Returned == sqlPc = "returned"

\* The Puts of the call, after what the write context held before it.
NewPuts == SubSeq(writeContext, Len(writeContext0) + 1, Len(writeContext))

Evaluated(kind, i) == \E k \in 1..Len(evalLog) : evalLog[k] = <<kind, i>>

PutFor(i) == {k \in 1..Len(NewPuts) : NewPuts[k].col = i}

\* The guard outcomes that skip a column.
SkipOutcomes == {"BoolFalse", "NilValue", "NilIface", "ErrorValue", "GoErr"}

\* C1: a WHERE that evaluates, without a Go-level error, to Nil makes
\* EvalSql return (true, nil); one that evaluates to an Error value makes it
\* return true together with that value's error.
C1_WhereNilOrErrorKeepsRow ==
    Returned =>
        /\ sel.Where \in {"NilValue", "NilIface"} => sqlKeep = TRUE /\ sqlErr = NoErr
        /\ sel.Where = "ErrorValue" => sqlKeep = TRUE /\ sqlErr = ErrVal

C1_Witness ==
    /\ Returned
    /\ sel.Where = "ErrorValue"
    /\ Len(sel.Columns) = MaxCols
    /\ sqlKeep = TRUE
    /\ sqlErr = ErrVal

\* C2: a WHERE that evaluates to Bool(false) makes EvalSql return
\* (false, nil), with no column guard or expression evaluated and the write
\* context as it was.
C2_WhereFalseFiltersRow ==
    (Returned /\ sel.Where = "BoolFalse") =>
        /\ sqlKeep = FALSE
        /\ sqlErr = NoErr
        /\ evalLog = << <<"Where", 0>> >>
        /\ writeContext = writeContext0

C2_Witness ==
    /\ Returned
    /\ sel.Where = "BoolFalse"
    /\ Len(sel.Columns) = MaxCols
    /\ \A i \in 1..Len(sel.Columns) :
          sel.Columns[i].Guard = NoNode /\ sel.Columns[i].Expr = "IntValue"
    /\ writeContext0 # <<>>
    /\ sqlKeep = FALSE

\* The WHERE outcomes after which the projection loop runs.
WherePasses == sel.Where \in {NoNode, "BoolTrue", "IntValue"}

\* C3: a column whose guard evaluates to false, Nil, an Error value or a
\* Go-level error is skipped (no Eval of its Expr, no Put), the next column is
\* still processed, and EvalSql returns keep = false or an error only for a
\* column whose Expr was evaluated and failed.
C3_GuardSkipsColumnOnly ==
    Returned =>
        /\ \A i \in 1..Len(sel.Columns) :
              (Evaluated("Guard", i) /\ sel.Columns[i].Guard \in SkipOutcomes) =>
                  /\ ~Evaluated("Expr", i)
                  /\ PutFor(i) = {}
                  /\ i < Len(sel.Columns) =>
                        \/ Evaluated("Guard", i + 1)
                        \/ Evaluated("Expr", i + 1)
        /\ (WherePasses /\ (sqlKeep = FALSE \/ sqlErr # NoErr)) =>
              \E i \in 1..Len(sel.Columns) :
                  /\ sel.Columns[i].Guard \notin SkipOutcomes
                  /\ Evaluated("Expr", i)
                  /\ sel.Columns[i].Expr = "GoErr"

C3_Witness ==
    /\ Returned
    /\ Len(sel.Columns) = 2
    /\ sel.Columns[1].Guard = "ErrorValue"
    /\ Evaluated("Guard", 1)
    /\ sel.Columns[2].Guard = NoNode
    /\ PutFor(2) # {}
    /\ sqlKeep = TRUE
    /\ sqlErr = NoErr

\* C4: the Puts of a call are made in column order, at most one per column,
\* after what the write context already held; a column whose Expr fails with
\* a Go-level error ends the call with (false, err), with no Put for it or
\* for a later column, and with the Puts of the earlier columns in place.
C4_PutsInOrderStopAtExprError ==
    Returned =>
        /\ SubSeq(writeContext, 1, Len(writeContext0)) = writeContext0
        /\ \A k \in 1..Len(NewPuts) :
              /\ NewPuts[k].col \in 1..Len(sel.Columns)
              /\ NewPuts[k].as = sel.Columns[NewPuts[k].col].As
              /\ NewPuts[k].val = sel.Columns[NewPuts[k].col].Expr
        /\ \A k, l \in 1..Len(NewPuts) : k < l => NewPuts[k].col < NewPuts[l].col
        /\ \A i \in 1..Len(sel.Columns) :
              (Evaluated("Expr", i) /\ sel.Columns[i].Expr = "GoErr") =>
                  /\ sqlKeep = FALSE
                  /\ sqlErr = EvalErr
                  /\ \A j \in i..Len(sel.Columns) : PutFor(j) = {}
                  /\ \A j \in 1..(i - 1) :
                        Evaluated("Expr", j) => Cardinality(PutFor(j)) = 1

C4_Witness ==
    /\ Returned
    /\ Len(sel.Columns) = 2
    /\ Evaluated("Expr", 1)
    /\ sel.Columns[1].Expr = "IntValue"
    /\ Evaluated("Expr", 2)
    /\ sel.Columns[2].Expr = "GoErr"
    /\ Len(NewPuts) = 1
    /\ sqlKeep = FALSE

(***************************************************************************)
(* Claims about the schema registry                                        *)
(***************************************************************************)
StrictlyAscending(list) ==
    \A i, j \in 1..Len(list) : i < j => StringLess(list[i], list[j])

\* C5: Schema.Tables() and every SourceSchema.Tables() are sorted ascending
\* and hold no name twice, after any sequence of registry calls.
C5_TablesSortedNoDuplicates ==
    /\ StrictlyAscending(schema.tableNames)
    /\ \A s \in SS : StrictlyAscending(ss[s].tableNames)

C5_Witness ==
    /\ schema.tableNames = << <<65>>, <<97>>, <<98>> >>
    /\ ss["s1"].tableNames = << <<65>>, <<97>>, <<98>> >>
    /\ ss["s2"].tableNames = << <<98>> >>

\* C6: when RefreshSchema (or AddSourceSchema) has returned, every table
\* name that the DataSource of a registered SourceSchema lists is in the
\* name list of that SourceSchema and in the name list of the Schema.  It is
\* stated for the SourceSchemas that have no TablesToLoad list, whose
\* AddTableName admits every name.
C6_RefreshCoversEveryDataSource ==
    last.op \in {"Schema.RefreshSchema", "Schema.AddSourceSchema"} =>
        \A s \in schema.SourceSchemas :
            (ss[s].DS # NoDS /\ ss[s].TablesToLoad = <<>>) =>
                \A i \in 1..Len(ds[ss[s].DS].tables) :
                    LET n == ds[ss[s].DS].tables[i] IN
                    /\ Contains(ss[s].tableNames, n)
                    /\ Contains(schema.tableNames, n)

\* Whether name n is, letter case aside, a table of SourceSchema s: in its
\* name list, listed by its DataSource, or indexed to it by the Schema.
SameName(a, b) == ToLower(a) = ToLower(b)
Lists(list, n) == \E i \in 1..Len(list) : SameName(list[i], n)

IsTableOf(n, s) ==
    \/ Lists(ss[s].tableNames, n)
    \/ ss[s].DS # NoDS /\ Lists(ds[ss[s].DS].tables, n)
    \/ \E m \in DOMAIN schema.tableSources :
          SameName(m, n) /\ schema.tableSources[m] = s

ListedBySomeDataSource(n) ==
    \E s \in schema.SourceSchemas :
        ss[s].DS # NoDS /\ Lists(ds[ss[s].DS].tables, n)

KnownToSchema(n) == \E m \in DOMAIN schema.tableSources : SameName(m, n)

\* C7: a Source(t) call that returns hands back a SourceSchema with a nil
\* error only if t is a table of it, and hands back a not-found error and no
\* SourceSchema when t is unknown to the Schema and no DataSource lists it.
C7_SourceFindsOnlyOwnTables ==
    (last.op = "Schema.Source" /\ last.err # Panic) =>
        /\ last.err = ErrNil => last.ret # NoSS /\ IsTableOf(last.name, last.ret)
        /\ (~KnownToSchema(last.name) /\ ~ListedBySomeDataSource(last.name)) =>
              last.err = ErrNoSource /\ last.ret = NoSS

Materialized(n) == Has(schema.tableMap, n) /\ schema.tableMap[n] # Nil
Placeholder(n) == Has(schema.tableMap, n) /\ schema.tableMap[n] = Nil

C9_TableSharedBySchemaAndSourceSchema ==
    /\ \A n \in DOMAIN schema.tableMap :
          schema.tableMap[n] # Nil =>
              LET owner == schema.tableSources[n] IN
              /\ Has(ss[owner].tableMap, n)
              /\ ss[owner].tableMap[n] = schema.tableMap[n]
    /\ \A s \in SS : \A n \in DOMAIN ss[s].tableMap :
          (ss[s].Schema /\ ss[s].tableMap[n] # Nil) =>
              /\ Has(schema.tableMap, n)
              /\ schema.tableMap[n] = ss[s].tableMap[n]

(***************************************************************************)
(* Claims about concurrent calls                                           *)
(***************************************************************************)
AllDone == \A t \in Threads : threads[t].pc = "done"

\* The calls of the threads run one at a time, in the given order.
SerialCall(w, t) ==
    IF threads[t].op = "Schema.AddTableName"
    THEN Schema_AddTableName(w, threads[t].arg, "s1")
    ELSE Schema_Table(w, threads[t].arg, TRUE).w

RECURSIVE SerialRun(_, _, _)
SerialRun(w, order, i) ==
    IF i > Len(order) THEN w ELSE SerialRun(SerialCall(w, order[i]), order, i + 1)

\* What the claim compares: the name list, the names indexed and mapped, the
\* names materialized, and the number of Tables the DataSource made.
Outcome(w) ==
    [tableNames |-> w.schema.tableNames,
     tableSources |-> w.schema.tableSources,
     mapped |-> DOMAIN w.schema.tableMap,
     materialized |-> {n \in DOMAIN w.schema.tableMap : w.schema.tableMap[n] # Nil},
     made |-> Len(w.tables)]

\* C10: when all threads have returned, the Schema is as some one-at-a-time
\* order of their calls leaves it: no name lost or twice in Tables(), a
\* placeholder materialized once.
C10_ConcurrentCallsSerializable ==
    AllDone => \E order \in Orders(Threads) :
                   Outcome(World) = Outcome(SerialRun(ConcStart, order, 1))

(***************************************************************************)
(* Claims about the Schema's refresh time                                  *)
(***************************************************************************)
\* C11: Schema.Current() is true exactly when RefreshSchema ran or a Table
\* was materialized less than five minutes ago; a Schema never refreshed is
\* not current.
C11_CurrentWithinFiveMinutesOfRefresh ==
    last.op = "Schema.Current" =>
        (last.ok <=> (refreshedAt # Never /\ now < refreshedAt + 5))

(***************************************************************************)
(* Claims about TablesToLoad                                               *)
(***************************************************************************)
\* The SourceSchema s has a TablesToLoad list and n is not on it, in any case.
NotToLoad(s, n) ==
    /\ Len(ss[s].TablesToLoad) > 0
    /\ \A i \in 1..Len(ss[s].TablesToLoad) :
          ToLower(ss[s].TablesToLoad[i]) # ToLower(n)

\* A step of one of the calls that load table names.
LoadingCall ==
    \/ CallSourceSchemaAddTableName
    \/ CallSourceSchemaAddTable
    \/ CallSourceSchemaAddTableAgain
    \/ CallAddSourceSchema
    \/ CallRefreshSchema

\* C12: no SourceSchema.AddTableName, SourceSchema.AddTable, AddSourceSchema
\* or RefreshSchema call puts a name that a SourceSchema's TablesToLoad does
\* not list into that SourceSchema's name list, or into the Schema's name
\* list with that SourceSchema as its source.
C12_TablesToLoadKeepsNamesOut ==
    [][LoadingCall =>
        \A s \in SS, n \in Names :
            NotToLoad(s, n) =>
                /\ ~Contains(ss'[s].tableNames, n)
                /\ (~Contains(schema.tableNames, n) /\ Contains(schema'.tableNames, n))
                      => schema'.tableSources[n] # s]_vars

(***************************************************************************)
(* Claims about tables that appear after a refresh                         *)
(***************************************************************************)
\* The registered SourceSchema s is set up in full (its Schema pointer and
\* its DataSource set) and its DataSource lists t, which the Schema's index
\* does not hold.
NewlyListed(s, t) ==
    /\ s \in schema.SourceSchemas
    /\ ss[s].Schema
    /\ ss[s].DS # NoDS
    /\ Contains(ds[ss[s].DS].tables, t)
    /\ ~KnownToSchema(t)

\* C13: a Source(t) call for a table t that a registered DataSource lists
\* and the Schema does not know returns the SourceSchema of that DataSource
\* with a nil error, and leaves t in Schema.Tables() with that SourceSchema as
\* its source.
C13_SourcePicksUpNewTable ==
    [][(Idle /\ last'.op = "Schema.Source" /\ last'.err # Panic
            /\ \E s \in SS : NewlyListed(s, last'.name))
        => /\ last'.err = ErrNil
           /\ NewlyListed(last'.ret, last'.name)
           /\ Contains(schema'.tableNames, last'.name)
           /\ Has(schema'.tableSources, last'.name)
           /\ schema'.tableSources[last'.name] = last'.ret]_vars

(***************************************************************************)
(* Claims about Schema.AddTableName                                        *)
(***************************************************************************)
\* The registry as the step leaves it.
WorldAfter == [schema |-> schema', ss |-> ss', ds |-> ds', tables |-> tables']

OwnedBy(n, s) ==
    LET low == ToLower(n) IN
    /\ Contains(ss[s].tableNames, low)
    /\ Has(ss[s].tableMap, low)
    /\ Has(schema.tableSources, low)
    /\ schema.tableSources[low] = s

\* C15: for a table of SourceSchema s named in any spelling, and a
\* DataSource that answers, s.Table(name) returns an error exactly when
\* Schema.Table(name) does.
C15_SourceSchemaTableAsSchemaTable ==
    [][\A s \in SS : \A n \in CallNames(s) :
          LET r == SourceSchema_Table(World, s, n, TRUE) IN
          (Idle /\ last'.op = "SourceSchema.Table" /\ last'.name = n
                /\ OwnedBy(n, s)
                /\ WorldAfter = r.w /\ last'.err = r.err /\ last'.tbl = r.tbl)
              => (last'.err = ErrNil <=> Schema_Table(World, n, TRUE).err = ErrNil)]_vars

(***************************************************************************)
(* Claims about the expression vm                                          *)
(***************************************************************************)
VmDone(call) == vm.pc = "done" /\ vm.call = call

\* The call was of a row, on the binary expression l op r.
OnBinary(op, l, r) == ~vm.ctx.isNil /\ vm.node = BinaryNode(op, l, r)

\* C16: on a row without the column missing_col, missing_col == "bob"
\* evaluates to Bool(false) without an error, and EvalSql with it as the
\* WHERE keeps the row.
C16_MissingColumnEqualsKeepsRow ==
    OnBinary(Token.EqualEqual, IdentityNode("missing_col"), StringNode("bob")) =>
        /\ VmDone("Eval") =>
              /\ vm.panic = NoPanic
              /\ vm.err = NoErr
              /\ vm.val = NewBoolValue(FALSE)
        /\ VmDone("EvalSql") =>
              /\ vm.panic = NoPanic
              /\ vm.keep

\* Operands a binary operator cannot combine: Int or Number with Bool, Bool
\* with Int or Number, a numeric kind with a String that is no number.
IncompatibleKinds(a, b) ==
    LET numeric(x) == x.kind \in {"Int", "Number"}
        word(x) == x.kind = "String" /\ ~StringIsNumber(StringVal(x))
    IN  \/ numeric(a) /\ b.kind = "Bool"
        \/ a.kind = "Bool" /\ numeric(b)
        \/ numeric(a) /\ word(b)
        \/ word(a) /\ numeric(b)

\* C17: a binary operator on operands of incompatible kinds gives a Value
\* of kind Error and no Go error, and EvalSql with the expression as the
\* WHERE keeps the row.
C17_TypeMismatchIsErrorValue ==
    \A op \in Operators :
        (/\ OnBinary(op, IdentityNode("a"), IdentityNode("b"))
         /\ IncompatibleKinds(vm.ctx.row["a"], vm.ctx.row["b"])) =>
            /\ VmDone("Eval") =>
                  /\ vm.panic = NoPanic
                  /\ vm.err = NoErr
                  /\ vm.val.kind = "Error"
            /\ VmDone("EvalSql") =>
                  /\ vm.panic = NoPanic
                  /\ vm.keep

\* C18: Execute returns an error, and Puts nothing, when the walk panics
\* with something that is no runtime error, of whatever type; it panics
\* with the runtime error when the walk panics with one.
C18_ExecuteRecoversEveryOtherPanic ==
    VmDone("Execute") =>
        LET raised == Walk(vm.ctx, vm.node).panic IN
        /\ raised = RuntimeError => vm.panic = RuntimeError
        /\ raised \notin {NoPanic, RuntimeError} =>
              /\ vm.panic = NoPanic
              /\ vm.err # NoErr
              /\ vm.puts = <<>>

\* The expression is a / b or a % b, and its operands evaluate to Ints of
\* which the right one is 0.
IntByZero ==
    /\ vm.node.type = "Binary"
    /\ vm.node.Operator \in {Token.Divide, Token.Modulus}
    /\ LET a == Walk(vm.ctx, vm.node.Args[1])
           b == Walk(vm.ctx, vm.node.Args[2])
       IN  /\ a.panic = NoPanic /\ a.err = NoErr /\ a.val.kind = "Int"
           /\ b.panic = NoPanic /\ b.err = NoErr /\ b.val.kind = "Int"
           /\ IntVal(b.val) = 0

\* C19: a / b and a % b on Ints with b = 0 do not panic, through Eval and
\* through Execute.
C19_IntDivideByZeroDoesNotPanic ==
    ((VmDone("Eval") \/ VmDone("Execute")) /\ IntByZero) => vm.panic = NoPanic

\* The result r of an operand is a value of kind Nil, Bool, Int, Number or
\* String, and no error.
NonErrorOperand(r) ==
    /\ r.panic = NoPanic
    /\ r.err = NoErr
    /\ r.val.kind \in {"nil", "Nil", "Bool", "Int", "Number", "String"}

\* C20: when a == b evaluates to a Bool for operands that are no errors,
\* a != b evaluates to the opposite Bool, also when a, b or both are Nil.
C20_NotEqualIsNegationOfEqual ==
    (VmDone("Eval") /\ vm.node.type = "Binary" /\ vm.node.Operator = Token.NE) =>
        LET a == Walk(vm.ctx, vm.node.Args[1])
            b == Walk(vm.ctx, vm.node.Args[2])
            eq == Walk(vm.ctx, [vm.node EXCEPT !.Operator = Token.EqualEqual])
        IN  (/\ NonErrorOperand(a)
             /\ NonErrorOperand(b)
             /\ eq.panic = NoPanic
             /\ eq.err = NoErr
             /\ eq.val.kind = "Bool") =>
                /\ vm.panic = NoPanic
                /\ vm.err = NoErr
                /\ vm.val = NewBoolValue(~BoolVal(eq.val))

\* C21: for operands a, b, c that are each an Int or a Number, a BETWEEN b
\* AND c evaluates without an error to the Bool that says whether b < a and
\* a < c, both strict, with an Int taken as the Number it is.
C21_BetweenIsStrictOnNumerics ==
    (VmDone("Eval") /\ vm.node.type = "Tri") =>
        LET a == Walk(vm.ctx, vm.node.Args[1]).val
            b == Walk(vm.ctx, vm.node.Args[2]).val
            c == Walk(vm.ctx, vm.node.Args[3]).val
            num(x) == NumberVal(IF x.kind = "Int" THEN IntToNumber(x) ELSE x)
        IN  (\A x \in {a, b, c} : x.kind \in {"Int", "Number"}) =>
                /\ vm.panic = NoPanic
                /\ vm.err = NoErr
                /\ vm.val = NewBoolValue(FloatLess(num(b), num(a))
                                           /\ FloatLess(num(a), num(c)))

(***************************************************************************)
(* Claims about the tables                                                 *)
(***************************************************************************)
\* The Tables that the table map of the Schema or of a SourceSchema holds.
StoredTables ==
    ({schema.tableMap[n] : n \in DOMAIN schema.tableMap}
        \cup UNION {{ss[s].tableMap[n] : n \in DOMAIN ss[s].tableMap} : s \in SS})
        \ {Nil}

\* C22: every Table in a table map of the Schema or of a SourceSchema has
\* as Id() the FNV-64 hash of its lower-cased Name, whichever operation
\* stored it, and no step changes the id of a stored Table.
C22_TableIdIsHashOfName ==
    /\ [](\A t \in StoredTables : tables[t].tblId = FNV64(ToLower(tables[t].Name)))
    /\ [][\A t \in StoredTables : tables'[t].tblId = tables[t].tblId]_vars

\* The Fields the Table holds, in Fields or in FieldMap.
StoredFields ==
    {theTable.Fields[i] : i \in 1..Len(theTable.Fields)}
        \cup {theTable.FieldMap[n] : n \in DOMAIN theTable.FieldMap}

\* C23: after any AddField calls, every Field f the Table holds is both
\* FieldMap[f.Name] and Fields[f.idx], and no two places of Fields hold
\* Fields of one name.
C23_FieldMapAgreesWithFields ==
    /\ \A f \in StoredFields :
          LET fld == theTable.heap[f] IN
          /\ Has(theTable.FieldMap, fld.Name)
          /\ theTable.FieldMap[fld.Name] = f
          /\ fld.idx < Len(theTable.Fields)
          /\ theTable.Fields[fld.idx + 1] = f
    /\ \A i, j \in 1..Len(theTable.Fields) :
          theTable.heap[theTable.Fields[i]].Name = theTable.heap[theTable.Fields[j]].Name => i = j

\* Some entry of the TablesToLoad of s is n once both are lower-cased.
ListedIgnoringCase(s, n) ==
    \E i \in 1..Len(ss[s].TablesToLoad) :
        ToLower(ss[s].TablesToLoad[i]) = ToLower(n)

\* C24: in every state, an AddTableName(n) call on a SourceSchema with a
\* non-empty TablesToLoad leaves n in the SourceSchema's name list exactly
\* when some TablesToLoad entry is n once both are lower-cased.
C24_TablesToLoadIgnoresCase ==
    \A s \in SS, n \in Names :
        Len(ss[s].TablesToLoad) > 0 =>
            (Contains(SourceSchema_AddTableName(World, s, n).ss[s].tableNames, n)
                <=> ListedIgnoringCase(s, n))

\* C25: a logical-and whose operands evaluate without an error, at least one
\* of them to Nil, evaluates to Bool(false) without an error, whichever side
\* the Nil is on and whatever the other operand is.
C25_AndWithNilIsFalse ==
    (VmDone("Eval") /\ vm.node.type = "Binary" /\ vm.node.Operator = Token.LogicAnd) =>
        LET a == Walk(vm.ctx, vm.node.Args[1])
            b == Walk(vm.ctx, vm.node.Args[2])
        IN  (/\ NonErrorOperand(a)
             /\ NonErrorOperand(b)
             /\ IsNilKind(a.val) \/ IsNilKind(b.val)) =>
                /\ vm.panic = NoPanic
                /\ vm.err = NoErr
                /\ vm.val = NewBoolValue(FALSE)

\* C26: LIKE on two Strings evaluates to a Value of kind Error when the
\* right operand is no well-formed pattern, and otherwise to the Bool that
\* says whether the left operand matches the right one as the pattern.
C26_LikeBadPatternIsErrorValue ==
    (VmDone("Eval") /\ vm.node.type = "Binary" /\ vm.node.Operator = Token.Like) =>
        LET a == Walk(vm.ctx, vm.node.Args[1])
            b == Walk(vm.ctx, vm.node.Args[2])
        IN  (/\ NonErrorOperand(a)
             /\ NonErrorOperand(b)
             /\ a.val.kind = "String"
             /\ b.val.kind = "String") =>
                LET m == Match(StringVal(b.val), StringVal(a.val)) IN
                /\ vm.panic = NoPanic
                /\ vm.err = NoErr
                /\ vm.val = IF m.err # NoErr THEN NewErrorValue
                            ELSE NewBoolValue(m.match)

(***************************************************************************)
(* Claims about the projection of a kept row                               *)
(***************************************************************************)
\* The columns of the statement with no guard or with a guard that
\* evaluated to a value that is not false, not nil and no error.
OpenColumns ==
    {i \in 1..Len(sel.Columns) : sel.Columns[i].Guard \in {NoNode, "BoolTrue", "IntValue"}}

\* C27: when EvalSql returns (true, nil) for a statement with no WHERE or
\* with a WHERE that evaluated to Bool(true), to Nil or to another value
\* that is not nil, the call has made exactly one Put for each column with
\* no guard or a guard that let the column through, and none for another
\* column.
C27_KeptRowHasEveryOpenColumnPut ==
    (/\ Returned
     /\ sqlKeep = TRUE
     /\ sqlErr = NoErr
     /\ sel.Where \in {NoNode, "BoolTrue", "NilValue", "NilIface", "IntValue"}) =>
        \A i \in 1..Len(sel.Columns) :
            Cardinality(PutFor(i)) = IF i \in OpenColumns THEN 1 ELSE 0

(***************************************************************************)
(* Claims about the indexes of the Schema                                  *)
(***************************************************************************)
\* The names Schema.Tables() lists.
Listed == {schema.tableNames[i] : i \in 1..Len(schema.tableNames)}

\* C28: in every state with no call under way the names of Schema.Tables()
\* are the keys of the table-to-source index and the keys of the table map,
\* and no step takes an entry of the table map from a materialized Table
\* back to a placeholder or out of the map.
C28_SchemaIndexesAgree ==
    /\ [](AllDone => /\ Listed = DOMAIN schema.tableSources
                     /\ Listed = DOMAIN schema.tableMap)
    /\ [][\A n \in Names : Materialized(n) =>
              Has(schema'.tableMap, n) /\ schema'.tableMap[n] # Nil]_vars

====
